---- MODULE Spec2Model ----
(***************************************************************************)
(* Model of kovri's configuration resolution, src/app/util/Config.cpp:     *)
(* ParseArgs and ParseConfigFile acting on the process-wide var_map,       *)
(* kovri_config and tunnels_config.  The boost::program_options calls the  *)
(* code makes (parse_command_line, parse_config_file, store, notify) are   *)
(* modelled by what they do to the variables_map.                          *)
(***************************************************************************)
EXTENDS Integers, Sequences, FiniteSets, TLC

\* ------------------------------------------------------------------------
\* Bounds of the model
\* ------------------------------------------------------------------------
\* longest command line (options after argv[0])
MaxArgs == 2
\* longest config file (lines)
MaxLines == 2
\* invocations of ParseArgs in one process (startup plus reloads)
MaxRuns == 2

\* ------------------------------------------------------------------------
\* Program constants
\* ------------------------------------------------------------------------
PortMin == 9111
PortMax == 30777
HttpProxyPort == 4446
SocksProxyPort == 4447
I2PControlPort == 0
IntMax == 2147483647

\* i2p::util::filesystem::GetFullPath("kovri.conf") / ("tunnels.cfg")
DefaultConfigPath == "kovri.conf"
DefaultTunnelsPath == "tunnels.cfg"

\* ------------------------------------------------------------------------
\* Strings as characters, for the conversions of bpo::value<int> and
\* bpo::value<bool>
\* ------------------------------------------------------------------------
Chars(s) ==
  CASE s = "4545" -> <<"4", "5", "4", "5">>
    [] s = "7000" -> <<"7", "0", "0", "0">>
    [] s = "notanumber" -> <<"n", "o", "t", "a", "n", "u", "m", "b", "e", "r">>
    [] s = "On" -> <<"O", "n">>
    [] s = "1" -> <<"1">>
    [] s = "0" -> <<"0">>
    [] OTHER -> <<"?">>

Digits == {"0", "1", "2", "3", "4", "5", "6", "7", "8", "9"}

DigitVal(c) ==
  CASE c = "0" -> 0 [] c = "1" -> 1 [] c = "2" -> 2 [] c = "3" -> 3
    [] c = "4" -> 4 [] c = "5" -> 5 [] c = "6" -> 6 [] c = "7" -> 7
    [] c = "8" -> 8 [] c = "9" -> 9

ToLower(c) ==
  CASE c = "O" -> "o" [] c = "N" -> "n" [] c = "Y" -> "y" [] c = "E" -> "e"
    [] c = "S" -> "s" [] c = "T" -> "t" [] c = "R" -> "r" [] c = "U" -> "u"
    [] c = "F" -> "f" [] c = "A" -> "a" [] c = "L" -> "l"
    [] OTHER -> c

RECURSIVE DecimalValue(_, _, _)
\* value of the digits cs[i..], accumulated left to right
DecimalValue(cs, i, acc) ==
  IF i > Len(cs) THEN acc
  ELSE DecimalValue(cs, i + 1, acc * 10 + DigitVal(cs[i]))

\* boost::lexical_cast<int>: all characters are digits and the value fits
IntOk(s) ==
  LET cs == Chars(s)
  IN /\ Len(cs) > 0
     /\ \A i \in 1..Len(cs) : cs[i] \in Digits
     /\ DecimalValue(cs, 1, 0) <= IntMax

IntOf(s) == DecimalValue(Chars(s), 1, 0)

\* boost's validate(bool): the token is lower-cased, then matched
BoolTrue == {<<>>, <<"o", "n">>, <<"y", "e", "s">>, <<"1">>, <<"t", "r", "u", "e">>}
BoolFalse == {<<"o", "f", "f">>, <<"n", "o">>, <<"0">>, <<"f", "a", "l", "s", "e">>}

Lowered(s) == [i \in 1..Len(Chars(s)) |-> ToLower(Chars(s)[i])]

BoolOk(s) == Lowered(s) \in BoolTrue \cup BoolFalse

BoolOf(s) == Lowered(s) \in BoolTrue

\* can the token be converted to the option's type / the converted value
CanParse(type, tok) ==
  CASE type = "int" -> IntOk(tok)
    [] type = "bool" -> BoolOk(tok)
    [] OTHER -> TRUE

ParseValue(type, tok) ==
  CASE type = "int" -> IntOf(tok)
    [] type = "bool" -> BoolOf(tok)
    [] OTHER -> tok

\* ------------------------------------------------------------------------
\* The option registry built at the top of ParseArgs
\* ------------------------------------------------------------------------
\* one option of add_options(): "key,alias", its value semantic, its default
Opt(key, alias, type, hasDefault, default) ==
  key :> [alias |-> alias, type |-> type,
          hasDefault |-> hasDefault, default |-> default]

\* an options_description: its captions and its options by long name
OptionsDescription(caption, opts) == [captions |-> {caption}, opts |-> opts]

\* options_description::add
Add(d, g) == [captions |-> d.captions \cup g.captions, opts |-> d.opts @@ g.opts]

help ==
  OptionsDescription("Help options",
    (Opt("help", "h", "flag", FALSE, "") @@
       Opt("help-with", "w", "string", FALSE, "")))

basic(port) ==
  OptionsDescription("Basic",
    (Opt("host", "", "string", TRUE, "127.0.0.1") @@
       Opt("port", "p", "int", TRUE, port)))

system ==
  OptionsDescription("System",
    (Opt("log", "l", "bool", TRUE, FALSE) @@
       Opt("daemon", "d", "bool", TRUE, FALSE) @@
       Opt("service", "s", "bool", TRUE, FALSE)))

network ==
  OptionsDescription("Network",
    (Opt("v6", "6", "bool", TRUE, FALSE) @@
       Opt("floodfill", "f", "bool", TRUE, FALSE) @@
       Opt("bandwidth", "b", "string", TRUE, "L")))

proxy ==
  OptionsDescription("Proxy",
    (Opt("httpproxyport", "", "int", TRUE, HttpProxyPort) @@
       Opt("httpproxyaddress", "", "string", TRUE, "127.0.0.1") @@
       Opt("socksproxyport", "", "int", TRUE, SocksProxyPort) @@
       Opt("socksproxyaddress", "", "string", TRUE, "127.0.0.1") @@
       Opt("proxykeys", "k", "string", TRUE, "")))

i2pcs ==
  OptionsDescription("I2P Control Service",
    (Opt("i2pcontrolport", "", "int", TRUE, I2PControlPort) @@
       Opt("i2pcontroladdress", "", "string", TRUE, "127.0.0.1") @@
       Opt("i2pcontrolpassword", "", "string", TRUE, "itoopie")))

config ==
  OptionsDescription("Configuration",
    (Opt("config", "c", "string", TRUE, DefaultConfigPath) @@
       Opt("tunnelscfg", "t", "string", TRUE, DefaultTunnelsPath)))

\* the default visible option: the banner with the help group
kovri == Add(OptionsDescription("The Kovri I2P Router Project", <<>>), help)

EmptyDescription == [captions |-> {}, opts |-> <<>>]

config_options(port) ==
  Add(Add(Add(Add(Add(Add(EmptyDescription, basic(port)), system), network),
              proxy), i2pcs), config)

cli_options(port) ==
  Add(Add(Add(Add(Add(Add(Add(EmptyDescription, help), basic(port)), system),
                  network), proxy), i2pcs), config)

KeysOf(desc) == DOMAIN desc.opts

\* the description of a key of desc
Description(desc, key) == desc.opts[key]

\* ------------------------------------------------------------------------
\* Inputs: a command line is a sequence of options [name, value] (name a
\* long name or a short alias), a config file a sequence of lines
\* ------------------------------------------------------------------------
HelpWithValues ==
  {"all", "basic", "system", "network", "proxy", "i2pcs", "config",
   "Basic"}

Arg(name, value) == [name |-> name, value |-> value]

CliArgs ==
  {Arg("h", "")}
    \cup {Arg("help-with", v) : v \in HelpWithValues}
    \cup {Arg("port", "4545"), Arg("port", "notanumber"),
          Arg("config", "alt.conf"), Arg("bogus", "1")}

Line(kind, key, value) == [kind |-> kind, key |-> key, value |-> value]

FileLines ==
  {Line("kv", "port", "7000"), Line("kv", "log", "On"),
   Line("kv", "config", "other.conf"), Line("kv", "help-with", "all"),
   Line("garbage", "", "")}

SeqsUpTo(S, n) == UNION {[1..k -> S] : k \in 0..n}

\* what the file system answers when the config path is opened
File(open, lines) == [open |-> open, lines |-> lines]
NoFile == File(FALSE, <<>>)
Files == {NoFile} \cup {File(TRUE, l) : l \in SeqsUpTo(FileLines, MaxLines)}

RandPorts == {PortMin, PortMax}

NoPath == "<none>"

VARIABLES
  var_map,         \* bpo::variables_map: key -> [empty, defaulted, value]
  m_final,         \* variables_map::m_final: keys with an explicit final value
  kovri_config,    \* std::string kovri_config
  tunnels_config,  \* std::string tunnels_config
  argv,            \* the command line of the last invocation
  port,            \* the random default port of the last invocation
  file,            \* what opening the config file gave in the last invocation
  openedPath,      \* the path ParseConfigFile passed to std::ifstream
  out,             \* what the last invocation wrote to std::cout
  status,          \* "init", "returned" or "thrown"
  ret,             \* "true" / "false": the value ParseArgs returned
  exc,             \* the exception that left ParseArgs, or "none"
  runs             \* number of invocations so far

vars == <<var_map, m_final, kovri_config, tunnels_config, argv, port, file,
          openedPath, out, status, ret, exc, runs>>

\* ------------------------------------------------------------------------
\* boost::program_options as used by the code
\* ------------------------------------------------------------------------
Parsed(err, options) == [err |-> err, options |-> options]

\* does a command-line name (long name or short alias) name option o
Matches(desc, key, name) ==
  name = key \/ (desc.opts[key].alias # "" /\ name = desc.opts[key].alias)

Known(desc, name) == \E key \in KeysOf(desc) : Matches(desc, key, name)

KeyFor(desc, name) == CHOOSE key \in KeysOf(desc) : Matches(desc, key, name)

\* bpo::parse_command_line: every name must be an option of desc
parse_command_line(args, desc) ==
  IF \E i \in 1..Len(args) : ~Known(desc, args[i].name)
  THEN Parsed("unknown_option", <<>>)
  ELSE Parsed("none",
              [i \in 1..Len(args) |->
                 [string_key |-> KeyFor(desc, args[i].name),
                  value |-> args[i].value]])

RECURSIVE ParseLines(_, _, _, _)
\* the config file iterator: lines in order, the first bad line throws
ParseLines(lines, i, desc, acc) ==
  IF i > Len(lines) THEN Parsed("none", acc)
  ELSE IF lines[i].kind = "garbage"
    THEN Parsed("invalid_config_file_syntax", <<>>)
  ELSE IF lines[i].key \notin KeysOf(desc) THEN Parsed("unknown_option", <<>>)
  ELSE ParseLines(lines, i + 1, desc,
         Append(acc, [string_key |-> lines[i].key, value |-> lines[i].value]))

\* bpo::parse_config_file
parse_config_file(lines, desc) == ParseLines(lines, 1, desc, <<>>)

\* entries of the variables_map
Explicit(v) == [empty |-> FALSE, defaulted |-> FALSE, value |-> v]
Defaulted(v) == [empty |-> FALSE, defaulted |-> TRUE, value |-> v]
EmptyValue == [empty |-> TRUE, defaulted |-> FALSE]

\* m[key] = v
Put(m, key, v) == [k \in DOMAIN m \cup {key} |-> IF k = key THEN v ELSE m[k]]

Stored(m, err, explicit) == [m |-> m, err |-> err, explicit |-> explicit]

\* a store that lets a later source overwrite an explicit value
StoreOptionOverwrite(o, m, final, desc) ==
  LET d == Description(desc, o.string_key)
  IN IF ~CanParse(d.type, o.value)
     THEN Stored(Put(m, o.string_key, EmptyValue), "invalid_option_value", FALSE)
     ELSE Stored(Put(m, o.string_key, Explicit(ParseValue(d.type, o.value))),
                 "none", TRUE)

\* one iteration of the first loop of bpo::store
StoreOption(o, m, final, desc) ==
  LET name == o.string_key
      d == Description(desc, name)
      \* variable_value& v = m[option_name]; a defaulted value is erased
      v == IF name \in DOMAIN m /\ ~m[name].defaulted THEN m[name]
           ELSE EmptyValue
  IN IF name \in final THEN Stored(m, "none", FALSE)
     ELSE IF ~v.empty THEN Stored(Put(m, name, v), "multiple_occurrences", FALSE)
     ELSE IF ~CanParse(d.type, o.value)
       THEN Stored(Put(m, name, v), "invalid_option_value", FALSE)
     ELSE Stored(Put(m, name, Explicit(ParseValue(d.type, o.value))),
                 "none", TRUE)

RECURSIVE StoreOptions(_, _, _, _, _, _)
\* after iteration i gave r: an exception leaves the loop, otherwise the
\* option joins new_final if it was stored and the loop goes on
StoreStep(options, i, r, final, new_final, desc) ==
  IF r.err # "none" THEN [m |-> r.m, new_final |-> new_final, err |-> r.err]
  ELSE StoreOptions(options, i + 1, r.m, final,
         IF r.explicit THEN new_final \cup {options[i].string_key}
         ELSE new_final, desc)

\* the first loop of bpo::store; new_final is merged only if nothing throws
StoreOptions(options, i, m, final, new_final, desc) ==
  IF i > Len(options) THEN [m |-> m, new_final |-> new_final, err |-> "none"]
  ELSE StoreStep(options, i, StoreOption(options[i], m, final, desc), final,
                 new_final, desc)

\* a store that applies no default
ApplyNoDefaults(m, desc) == m

\* the second loop of bpo::store: defaults for the keys not in the map
ApplyDefaults(m, desc) ==
  LET missing == {k \in KeysOf(desc) :
                    k \notin DOMAIN m /\ Description(desc, k).hasDefault}
  IN m @@ [k \in missing |-> Defaulted(Description(desc, k).default)]

\* the end of bpo::store, r the outcome of its first loop
StoreEnd(r, final, desc) ==
  IF r.err # "none" THEN [m |-> r.m, final |-> final, err |-> r.err]
  ELSE [m |-> ApplyDefaults(r.m, desc), final |-> final \cup r.new_final,
        err |-> "none"]

\* bpo::store(options, xm)
store(options, m, final, desc) ==
  StoreEnd(StoreOptions(options, 1, m, final, {}, desc), final, desc)

\* bpo::notify(var_map): the values bound with value<std::string>(&x)
notify(m, kc, tc) ==
  [kovri_config |->
     IF "config" \in DOMAIN m /\ ~m["config"].empty THEN m["config"].value
     ELSE kc,
   tunnels_config |->
     IF "tunnelscfg" \in DOMAIN m /\ ~m["tunnelscfg"].empty
     THEN m["tunnelscfg"].value ELSE tc]

\* ------------------------------------------------------------------------
\* ParseConfigFile
\* ------------------------------------------------------------------------
\* the state ParseArgs and ParseConfigFile work on
Globals(m, final, kc, tc) ==
  [var_map |-> m, m_final |-> final, kovri_config |-> kc, tunnels_config |-> tc]

Outcome(g, o, err) == [g |-> g, out |-> o, err |-> err]

CouldNotOpenMessage(path) == [kind |-> "could_not_open", path |-> path]

\* an unopenable file treated as a fatal error
CouldNotOpenFatal(path, g) ==
  Outcome(g, <<CouldNotOpenMessage(path)>>, "could_not_open")

\* if (!ifs): the condition is printed, nothing else happens
CouldNotOpen(path, g) == Outcome(g, <<CouldNotOpenMessage(path)>>, "none")

\* bpo::notify(var_map) after a store that gave s; not reached if it threw
AfterStore(s, g) ==
  IF s.err # "none"
  THEN Outcome(Globals(s.m, s.final, g.kovri_config, g.tunnels_config),
               <<>>, s.err)
  ELSE Outcome(Globals(s.m, s.final,
                 notify(s.m, g.kovri_config, g.tunnels_config).kovri_config,
                 notify(s.m, g.kovri_config, g.tunnels_config).tunnels_config),
               <<>>, "none")

\* bpo::store(parsed, var_map); bpo::notify(var_map);
StoreAndNotify(parsed, desc, g) ==
  IF parsed.err # "none" THEN Outcome(g, <<>>, parsed.err)
  ELSE AfterStore(store(parsed.options, g.var_map, g.m_final, desc), g)

\* ParseConfigFile(config, config_options, var_map), f the file found at config
ParseConfigFile(path, desc, g, f) ==
  IF ~f.open THEN CouldNotOpen(path, g)
  ELSE StoreAndNotify(parse_config_file(f.lines, desc), desc, g)

\* ------------------------------------------------------------------------
\* The display of --help and --help-with
\* ------------------------------------------------------------------------
\* std::cout << an options_description
Usage(desc) == [kind |-> "usage", captions |-> desc.captions, keys |-> KeysOf(desc)]

UnknownOption(s) == [kind |-> "unknown", value |-> s]

\* a selection in which "all" lists the command-line options
HelpWithAllCli(s, p) ==
  IF s = "all" THEN Usage(cli_options(p))
  ELSE IF s = "basic" THEN Usage(basic(p))
  ELSE IF s = "system" THEN Usage(system)
  ELSE IF s = "network" THEN Usage(network)
  ELSE IF s = "proxy" THEN Usage(proxy)
  ELSE IF s = "i2pcs" THEN Usage(i2pcs)
  ELSE IF s = "config" THEN Usage(config)
  ELSE UnknownOption(s)

\* the chain of comparisons on var_map["help-with"]
HelpWith(s, p) ==
  IF s = "all" THEN Usage(config_options(p))
  ELSE IF s = "basic" THEN Usage(basic(p))
  ELSE IF s = "system" THEN Usage(system)
  ELSE IF s = "network" THEN Usage(network)
  ELSE IF s = "proxy" THEN Usage(proxy)
  ELSE IF s = "i2pcs" THEN Usage(i2pcs)
  ELSE IF s = "config" THEN Usage(config)
  ELSE UnknownOption(s)

Shown(o, r) == [out |-> o, ret |-> r]

\* a display that looks at help-with before help
DisplayHelpWithFirst(m, p) ==
  IF "help-with" \in DOMAIN m THEN Shown(<<HelpWith(m["help-with"].value, p)>>, "false")
  ELSE IF "help" \in DOMAIN m THEN Shown(<<Usage(kovri)>>, "false")
  ELSE Shown(<<>>, "true")

\* the end of ParseArgs: what is displayed and what is returned
DisplayHelp(m, p) ==
  IF "help" \in DOMAIN m THEN Shown(<<Usage(kovri)>>, "false")
  ELSE IF "help-with" \in DOMAIN m
    THEN Shown(<<HelpWith(m["help-with"].value, p)>>, "false")
  ELSE Shown(<<>>, "true")

\* ------------------------------------------------------------------------
\* ParseArgs
\* ------------------------------------------------------------------------
Result(g, opened, f, o, st, r, e) ==
  [g |-> g, openedPath |-> opened, file |-> f, out |-> o, status |-> st,
   ret |-> r, exc |-> e]

\* the return of ParseArgs, h what the help check displayed
Returning(c, path, f, h) ==
  Result(c.g, path, f, c.out \o h.out, "returned", h.ret, "none")

\* after ParseConfigFile(kovri_config, ...) gave c: the help check
AfterConfigFile(c, path, p, f) ==
  IF c.err # "none" THEN Result(c.g, path, f, c.out, "thrown", "none", c.err)
  ELSE Returning(c, path, f, DisplayHelp(c.g.var_map, p))

\* after the command line was stored with outcome c: parse config
AfterCommandLine(c, p, f) ==
  IF c.err # "none"
  THEN Result(c.g, NoPath, NoFile, <<>>, "thrown", "none", c.err)
  ELSE AfterConfigFile(
         ParseConfigFile(c.g.kovri_config, config_options(p), c.g, f),
         c.g.kovri_config, p, f)

\* ParseArgs(argc, argv) with random port p, on globals g; f is what the
\* file system holds at the config path
ParseArgs(args, p, f, g) ==
  AfterCommandLine(
    StoreAndNotify(parse_command_line(args, cli_options(p)), cli_options(p), g),
    p, f)

\* ------------------------------------------------------------------------
\* The process: start-up, then reloads
\* ------------------------------------------------------------------------
Init ==
  /\ var_map = <<>>
  /\ m_final = {}
  /\ kovri_config = ""
  /\ tunnels_config = ""
  /\ argv = <<>>
  /\ port = PortMin
  /\ file = NoFile
  /\ openedPath = NoPath
  /\ out = <<>>
  /\ status = "init"
  /\ ret = "none"
  /\ exc = "none"
  /\ runs = 0

Invoke(args, p, f) ==
  \E r \in {ParseArgs(args, p, f,
               Globals(var_map, m_final, kovri_config, tunnels_config))} :
     /\ var_map' = r.g.var_map
     /\ m_final' = r.g.m_final
     /\ kovri_config' = r.g.kovri_config
     /\ tunnels_config' = r.g.tunnels_config
     /\ argv' = args
     /\ port' = p
     /\ file' = r.file
     /\ openedPath' = r.openedPath
     /\ out' = r.out
     /\ status' = r.status
     /\ ret' = r.ret
     /\ exc' = r.exc
     /\ runs' = runs + 1

\* main calls ParseArgs once, on the freshly constructed globals
Startup ==
  /\ runs = 0
  /\ \E args \in SeqsUpTo(CliArgs, MaxArgs), p \in RandPorts, f \in Files :
       Invoke(args, p, f)

\* a reload: the process parses its command line and the config file again,
\* into the same globals
Reload ==
  /\ runs >= 1
  /\ runs < MaxRuns
  /\ status = "returned"
  /\ ret = "true"
  /\ \E p \in RandPorts, f \in Files : Invoke(argv, p, f)

Next == Startup

Spec == Init /\ [][Next]_vars

NextReload == Startup \/ Reload

SpecReload == Init /\ [][NextReload]_vars

\* ------------------------------------------------------------------------
\* Vocabulary of the properties
\* ------------------------------------------------------------------------
\* the long name a command-line name stands for
LongName(name) == IF name = "h" THEN "help" ELSE name

GivenOn(args, k) == \E i \in 1..Len(args) : LongName(args[i].name) = k

OnCli(k) == GivenOn(argv, k)

CliToken(k) ==
  argv[CHOOSE i \in 1..Len(argv) : LongName(argv[i].name) = k].value

\* the config file was read in the last invocation and has a line for k
InFile(k) ==
  /\ openedPath # NoPath
  /\ file.open
  /\ \E i \in 1..Len(file.lines) : file.lines[i].kind = "kv" /\ file.lines[i].key = k

FileToken(k) ==
  file.lines[CHOOSE i \in 1..Len(file.lines) :
               file.lines[i].kind = "kv" /\ file.lines[i].key = k].value

Registry == cli_options(port)
AllKeys == KeysOf(Registry)
HelpKeys == {"help", "help-with"}
TypeOf(k) == Description(Registry, k).type
HasDefault(k) == Description(Registry, k).hasDefault
DefaultOf(k) == Description(Registry, k).default

Returned == status = "returned"

Holds(k, entry) == k \in DOMAIN var_map /\ var_map[k] = entry

\* the help texts written by the last invocation
IsHelpText(o) == o.kind \in {"usage", "unknown"}
HelpTexts == SelectSeq(out, IsHelpText)

\* the keys of each category, as the registry section of the specification
\* lists them
CategoryKeys ==
  [basic |-> {"host", "port"},
   system |-> {"log", "daemon", "service"},
   network |-> {"v6", "floodfill", "bandwidth"},
   proxy |-> {"httpproxyport", "httpproxyaddress", "socksproxyport",
              "socksproxyaddress", "proxykeys"},
   i2pcs |-> {"i2pcontrolport", "i2pcontroladdress", "i2pcontrolpassword"},
   config |-> {"config", "tunnelscfg"}]

CategoryNames == {"basic", "system", "network", "proxy", "i2pcs", "config"}

\* ------------------------------------------------------------------------
\* C1
\* ------------------------------------------------------------------------
\* C1: when the start-up ParseArgs has parsed the command line and then the
\* config file, every key holds the command-line value if the key was given
\* on the command line, otherwise the config-file value if the file has the
\* key, otherwise the built-in default (no entry for an option without one).
C1_Precedence ==
  Returned =>
    \A k \in AllKeys :
      IF OnCli(k) THEN Holds(k, Explicit(ParseValue(TypeOf(k), CliToken(k))))
      ELSE IF InFile(k)
        THEN Holds(k, Explicit(ParseValue(TypeOf(k), FileToken(k))))
      ELSE IF HasDefault(k) THEN Holds(k, Defaulted(DefaultOf(k)))
      ELSE k \notin DOMAIN var_map

\* port given on the command line and in the file, log only in the file
C1_Witness ==
  /\ Returned
  /\ OnCli("port") /\ InFile("port") /\ InFile("log") /\ ~OnCli("log")
  /\ var_map["port"] = Explicit(4545)
  /\ var_map["log"] = Explicit(TRUE)
  /\ var_map["host"] = Defaulted("127.0.0.1")

\* ------------------------------------------------------------------------
\* C2
\* ------------------------------------------------------------------------
\* C2: when the config file cannot be opened, ParseConfigFile throws nothing,
\* prints the condition, and the settings are the command-line values plus the
\* defaults; ParseArgs goes on to the help check and returns.
C2_MissingFile ==
  (status # "init" /\ openedPath # NoPath /\ ~file.open) =>
    /\ Returned
    /\ exc = "none"
    /\ Len(out) >= 1
    /\ out[1] = CouldNotOpenMessage(openedPath)
    /\ \A k \in AllKeys :
         IF OnCli(k) THEN Holds(k, Explicit(ParseValue(TypeOf(k), CliToken(k))))
         ELSE IF HasDefault(k) THEN Holds(k, Defaulted(DefaultOf(k)))
         ELSE k \notin DOMAIN var_map
    /\ ret = (IF OnCli("help") \/ OnCli("help-with") THEN "false" ELSE "true")

C2_Witness ==
  /\ Returned
  /\ openedPath = DefaultConfigPath
  /\ ~file.open
  /\ OnCli("port")
  /\ var_map["port"] = Explicit(4545)
  /\ ret = "true"

C5_ReturnValue ==
  Returned => ret = (IF Len(HelpTexts) > 0 THEN "true" ELSE "false")

\* ------------------------------------------------------------------------
\* C6
\* ------------------------------------------------------------------------
\* C6: an invocation that ends in a fatal parse error exposes nothing of a
\* partially merged result: no key of var_map holds a value it did not hold
\* before the call, and kovri_config and tunnels_config are as they were.
C6_NothingExposed ==
  [][status' = "thrown" =>
       /\ \A k \in DOMAIN var_map' :
            \/ var_map'[k].empty
            \/ (k \in DOMAIN var_map /\ var_map[k] = var_map'[k])
       /\ kovri_config' = kovri_config
       /\ tunnels_config' = tunnels_config]_vars

\* ------------------------------------------------------------------------
\* C7
\* ------------------------------------------------------------------------
\* C7 as stated: after the merge every key of the registry, help and
\* help-with included, has an entry, which holds the default when the key was
\* set in neither source.
C7_EveryKeyHasEntry ==
  Returned =>
    \A k \in AllKeys :
      /\ k \in DOMAIN var_map
      /\ ~var_map[k].empty
      /\ (~OnCli(k) /\ ~InFile(k) /\ HasDefault(k))
           => var_map[k] = Defaulted(DefaultOf(k))

\* C7 amended: after the merge every key that has a default (every key but
\* help and help-with) has an entry, which holds the default when the key was
\* set in neither source; help and help-with have an entry exactly when they
\* were given on the command line.
C7_EveryDefaultedKeyHasEntry ==
  Returned =>
    /\ \A k \in AllKeys \ HelpKeys :
         /\ k \in DOMAIN var_map
         /\ ~var_map[k].empty
         /\ (~OnCli(k) /\ ~InFile(k)) => var_map[k] = Defaulted(DefaultOf(k))
    /\ \A k \in HelpKeys : k \in DOMAIN var_map <=> OnCli(k)
    /\ DOMAIN var_map \subseteq AllKeys

\* nothing set by the user: eighteen defaults, no help entries
C7_Witness ==
  /\ Returned
  /\ argv = <<>>
  /\ file = File(TRUE, <<>>)
  /\ Cardinality(DOMAIN var_map) = 18
  /\ var_map["port"] = Defaulted(port)
  /\ var_map["proxykeys"] = Defaulted("")
  /\ "help" \notin DOMAIN var_map

\* ------------------------------------------------------------------------
\* C8
\* ------------------------------------------------------------------------
\* C8: after a reload, every key not given on the command line holds the
\* value the config file has at reload time, or a default if the file does
\* not set it.
C8_ReloadIsFresh ==
  (runs >= 2 /\ Returned) =>
    \A k \in AllKeys \ HelpKeys :
      ~OnCli(k) =>
        IF InFile(k)
        THEN Holds(k, Explicit(ParseValue(TypeOf(k), FileToken(k))))
        ELSE k \in DOMAIN var_map /\ var_map[k].defaulted

\* ------------------------------------------------------------------------
\* C9
\* ------------------------------------------------------------------------
\* C9: an invocation with the help flag displays the general help, returns
\* false, does not open the config file and leaves var_map, kovri_config and
\* tunnels_config unchanged.
C9_HelpHasNoEffect ==
  [][(runs' # runs /\ GivenOn(argv', "help")) =>
       /\ status' = "returned"
       /\ ret' = "false"
       /\ openedPath' = NoPath
       /\ var_map' = var_map
       /\ kovri_config' = kovri_config
       /\ tunnels_config' = tunnels_config]_vars

\* ------------------------------------------------------------------------
\* C10
\* ------------------------------------------------------------------------
\* C10: after ParseArgs returns, kovri_config and var_map["config"] name the
\* file ParseConfigFile opened, which is the command-line config value if one
\* was given and the default path otherwise.
C10_ConfigNamesOpenedFile ==
  Returned =>
    /\ openedPath = (IF OnCli("config") THEN CliToken("config")
                     ELSE DefaultConfigPath)
    /\ kovri_config = openedPath
    /\ Holds("config", IF OnCli("config") THEN Explicit(openedPath)
                       ELSE Defaulted(openedPath))

====
